---- MODULE Spec2Model ----
(***************************************************************************)
(* Model of src/bot/index.js: the slash-command dispatch pipeline          *)
(* (CommandHandler.handleCommand / logCommandUsage) and the experience     *)
(* engine (EventHandler.awardXP).                                          *)
(*                                                                         *)
(* Every `await` of the source is a suspension point, so each handler is   *)
(* cut into one action per await: the store executes a statement, or a     *)
(* reply is sent, and the continuation runs up to the next await.  Calls   *)
(* of different events interleave at these points (single-threaded event   *)
(* loop).                                                                  *)
(***************************************************************************)
EXTENDS Integers, Sequences, FiniteSets, TLC

(***************************************************************************)
(* Bounds of the model.                                                    *)
(***************************************************************************)
\* number of slash-command interactions handled in one behaviour
MaxInv == 2

Invs == 1..MaxInv

\* names a command can be registered under, and names an interaction can carry
CommandNames == {"ping"}
InputNames == CommandNames \cup {"foo"}

\* message texts of the errors a command handler throws
Messages == {"boom", "timeout"}

\* SQL NULL (the default of logCommandUsage's errorMessage parameter)
NULL == "NULL"

\* number of awardXP calls (qualifying messages) in one behaviour
MaxAwards == 2

XpCalls == 1..MaxAwards

\* the values Math.random() returns, as fractions <<numerator, denominator>> in
\* [0, 1): the least one, two thirds, and one close to 1
Randoms == {<<0, 1>>, <<2, 3>>, <<14, 15>>}

\* the clock is read at these instants (ms): whole minutes up to MaxMinutes,
\* each with the sub-minute offsets below (a sub-second one, and the last
\* millisecond before the next minute)
MaxMinutes == 1

Offsets == {0, 500, 59999}
Instants == {m * 60000 + o : m \in 0..MaxMinutes, o \in Offsets}

\* number of guildCreate events in one behaviour
MaxJoins == 2

\* Math.random() is enumerated as the fractions k / RandomGrain, 0 <= k < RandomGrain
RandomGrain == 150

Users == {"u1", "u2"}
Servers == {"s1"}

VARIABLES
    commands,       \* CommandHandler.commands: the registered command names
    call,           \* per interaction: the handleCommand call and the interaction object
    command_usage,  \* the command_usage table: a set of rows
    user_levels,    \* the user_levels table: a set of rows
    now,            \* the clock, in ms (Date.now(), and the store's CURRENT_TIMESTAMP)
    award,          \* per message: the awardXP call
    levelUps,       \* the congratulation replies sent, in order
    awardLog,       \* history: the award writes the store has accepted
    gated,          \* history: the awardXP calls that returned at the cooldown gate
    server_configs, \* the server_configs table: a set of rows
    bot_stats,      \* the bot_stats table: the main_stats row, or none
    guilds,         \* client.guilds.cache: the servers the bot is in
    join,           \* per guildCreate event: the handler's call
    msg,            \* per messageCreate event: the handler's call
    rndIx,          \* the Math.random() values tried so far, in order
    deltas          \* the XP deltas those values gave

cmdVars == <<commands, call, command_usage>>
xpVars == <<user_levels, now, award, levelUps, awardLog, gated>>
joinVars == <<server_configs, bot_stats, guilds, join>>
drawVars == <<rndIx, deltas>>

vars == <<commands, call, command_usage, user_levels, now, award, levelUps, awardLog,
          gated, server_configs, bot_stats, guilds, join, msg, rndIx, deltas>>

\* what the command pipeline, and the experience engine, leave alone
nonCmdVars == <<xpVars, joinVars, msg, drawVars>>
nonXpVars == <<cmdVars, joinVars, msg, drawVars>>

(***************************************************************************)
(* Values a command handler can throw.  JavaScript can throw any value:    *)
(* an Error carrying a message, or null / undefined (a promise rejected    *)
(* with no reason), on which the property access error.message itself      *)
(* throws a TypeError.                                                     *)
(***************************************************************************)
NoThrow == [kind |-> "none", message |-> NULL]
ThrownError(m) == [kind |-> "Error", message |-> m]
ThrownNullish == [kind |-> "nullish", message |-> NULL]
Thrown == {ThrownError(m) : m \in Messages} \cup {ThrownNullish}

\* what the handler does with the interaction before it returns or throws
HandlerActs == {"none", "reply", "defer"}

NotFoundReply == [kind |-> "reply", content |-> "Command not found!", ephemeral |-> TRUE]
ErrorNotice(kind) ==
    [kind |-> kind, content |-> "There was an error executing this command!",
     ephemeral |-> TRUE]
HandlerReply == [kind |-> "reply", content |-> "handler output", ephemeral |-> FALSE]

InitCall ==
    [pc |-> "idle", commandName |-> NULL, found |-> FALSE, executed |-> FALSE,
     replied |-> FALSE, deferred |-> FALSE, thrown |-> NoThrow, sent |-> <<>>,
     act |-> "none", preLog |-> "none", failLog |-> "none"]

\* rows of command_usage written on behalf of interaction i
UsageOf(i) == {r \in command_usage : r.id[1] = i}

\* logCommandUsage that binds no error text (the column stays NULL)
logCommandUsage_noMessage(table, i, success, errorMessage, ok) ==
    IF ok
    THEN table \cup
           {[id |-> <<i, Cardinality({r \in table : r.id[1] = i})>>,
             command_name |-> call[i].commandName,
             success |-> IF success THEN 1 ELSE 0,
             error_message |-> NULL]}
    ELSE table

(***************************************************************************)
(* logCommandUsage(interaction, env, success, errorMessage): one INSERT    *)
(* into command_usage inside a try/catch that swallows a failed write.     *)
(* ok is the outcome of the store write.  The row id (cmd_<now>_<random>)  *)
(* is modelled as <<interaction, rows it has written so far>>.             *)
(***************************************************************************)
logCommandUsage(table, i, success, errorMessage, ok) ==
    IF ok
    THEN table \cup
           {[id |-> <<i, Cardinality({r \in table : r.id[1] = i})>>,
             command_name |-> call[i].commandName,
             success |-> IF success THEN 1 ELSE 0,
             error_message |-> errorMessage]}
    ELSE table

\* registerCommand(name, command)
registerCommand(name) ==
    /\ name \notin commands
    /\ commands' = commands \cup {name}
    /\ UNCHANGED <<call, command_usage, nonCmdVars>>

\* handleCommand with the not-found path audit-logged like a failure
handleCommand_logsNotFound(i, name) ==
    /\ call[i].pc = "idle"
    /\ \A j \in Invs : j < i => call[j].pc # "idle"
    /\ IF name \notin commands
       THEN /\ call' = [call EXCEPT ![i].pc = "done", ![i].commandName = name,
                                    ![i].found = FALSE, ![i].replied = TRUE,
                                    ![i].sent = Append(@, NotFoundReply)]
            /\ command_usage' = command_usage \cup
                  {[id |-> <<i, 0>>, command_name |-> name, success |-> 0,
                    error_message |-> NULL]}
       ELSE /\ call' = [call EXCEPT ![i].pc = "log", ![i].commandName = name,
                                    ![i].found = TRUE]
            /\ UNCHANGED command_usage
    /\ UNCHANGED <<commands, nonCmdVars>>

(***************************************************************************)
(* handleCommand, lines 17-22: look the command up; when it is absent,     *)
(* send the ephemeral not-found reply and return.  Interactions are         *)
(* numbered in their order of arrival.                                     *)
(***************************************************************************)
handleCommand(i, name) ==
    /\ call[i].pc = "idle"
    /\ \A j \in Invs : j < i => call[j].pc # "idle"
    /\ IF name \notin commands
       THEN call' = [call EXCEPT ![i].pc = "done", ![i].commandName = name,
                                 ![i].found = FALSE, ![i].replied = TRUE,
                                 ![i].sent = Append(@, NotFoundReply)]
       ELSE call' = [call EXCEPT ![i].pc = "log", ![i].commandName = name,
                                 ![i].found = TRUE]
    /\ UNCHANGED <<commands, command_usage, nonCmdVars>>

\* the usage log without logCommandUsage's try/catch: a failed write lands in
\* handleCommand's catch block and the handler is never run
handleCommand_log_unguarded(i, ok) ==
    /\ call[i].pc = "log"
    /\ command_usage' = logCommandUsage(command_usage, i, TRUE, NULL, ok)
    /\ call' = [call EXCEPT ![i].pc = IF ok THEN "execute" ELSE "notify",
                            ![i].preLog = IF ok THEN "ok" ELSE "failed"]
    /\ UNCHANGED <<commands, nonCmdVars>>

\* handleCommand, line 26: await this.logCommandUsage(interaction, env, true)
handleCommand_log(i, ok) ==
    /\ call[i].pc = "log"
    /\ command_usage' = logCommandUsage(command_usage, i, TRUE, NULL, ok)
    /\ call' = [call EXCEPT ![i].pc = "execute",
                            ![i].preLog = IF ok THEN "ok" ELSE "failed"]
    /\ UNCHANGED <<commands, nonCmdVars>>

(***************************************************************************)
(* handleCommand, line 29: await command.execute(interaction, env).  The   *)
(* handler may reply to or defer the interaction, then returns or throws.  *)
(***************************************************************************)
handleCommand_execute(i, act, outcome) ==
    /\ call[i].pc = "execute"
    /\ call' = [call EXCEPT
                  ![i].executed = TRUE,
                  ![i].act = act,
                  ![i].replied = (act = "reply"),
                  ![i].deferred = (act = "defer"),
                  ![i].sent = IF act = "reply" THEN Append(@, HandlerReply) ELSE @,
                  ![i].thrown = outcome,
                  ![i].pc = IF outcome = NoThrow THEN "done" ELSE "catch"]
    /\ UNCHANGED <<commands, command_usage, nonCmdVars>>

(***************************************************************************)
(* handleCommand, lines 30-34: the catch block reads error.message and     *)
(* awaits logCommandUsage(interaction, env, false, error.message).  When   *)
(* the thrown value is null or undefined the read itself throws, and the   *)
(* exception leaves handleCommand.                                         *)
(***************************************************************************)
handleCommand_catch(i, ok) ==
    /\ call[i].pc = "catch"
    /\ IF call[i].thrown.kind = "nullish"
       THEN /\ call' = [call EXCEPT ![i].pc = "threw"]
            /\ UNCHANGED command_usage
       ELSE /\ command_usage' =
                  logCommandUsage(command_usage, i, FALSE, call[i].thrown.message, ok)
            /\ call' = [call EXCEPT ![i].pc = "notify",
                                    ![i].failLog = IF ok THEN "ok" ELSE "failed"]
    /\ UNCHANGED <<commands, nonCmdVars>>

\* handleCommand, lines 36-42: the generic notice, as a follow-up or a reply
handleCommand_notify(i) ==
    /\ call[i].pc = "notify"
    /\ call' = [call EXCEPT
                  ![i].pc = "done",
                  ![i].sent = Append(@, ErrorNotice(
                      IF call[i].replied \/ call[i].deferred
                      THEN "followUp" ELSE "reply")),
                  ![i].replied = IF call[i].replied \/ call[i].deferred
                                 THEN @ ELSE TRUE]
    /\ UNCHANGED <<commands, command_usage, nonCmdVars>>

(***************************************************************************)
(* The experience engine: EventHandler.awardXP.                            *)
(***************************************************************************)
\* the source's cooldown, line 199
Cooldown == 60000

\* line 189: Math.floor(Math.random() * 15) + 10, with Math.random() = rnd[1] / rnd[2]
XpToAward(rnd) == ((rnd[1] * 15) \div rnd[2]) + 10

\* the level rounded to the nearest integer (Math.round for Math.floor)
LevelOf_round(xp) ==
    CHOOSE L \in 0..xp :
        /\ ((L = 0) \/ (25 * (2 * L - 1) * (2 * L - 1) <= xp))
        /\ xp < 25 * (2 * L + 1) * (2 * L + 1)

\* line 205: Math.floor(0.1 * Math.sqrt(xp)), the largest L with 100 * L * L <= xp
LevelOf(xp) == CHOOSE L \in 0..xp : 100 * L * L <= xp /\ xp < 100 * (L + 1) * (L + 1)

(***************************************************************************)
(* CURRENT_TIMESTAMP is the store's UTC time as 'YYYY-MM-DD HH:MM:SS': it  *)
(* has whole seconds only, and is modelled as the number of seconds.       *)
(* new Date(text).getTime() (line 197) reads it back in ms; the worker's   *)
(* runtime zone is UTC.  The store and the worker read one clock (now).    *)
(***************************************************************************)
CurrentTimestamp(ms) == ms \div 1000
DateGetTime(stamp) == stamp * 1000

NoRow ==
    [id |-> 0, user_id |-> NULL, server_id |-> NULL, xp |-> 0, level |-> 0,
     messages_sent |-> 0, last_xp_gain |-> 0]

\* a row an earlier run of the bot left: 80 xp from five awards, level 0
OldRow ==
    [id |-> -1, user_id |-> "u1", server_id |-> "s1", xp |-> 80, level |-> 0,
     messages_sent |-> 5, last_xp_gain |-> 0]

InitTables == {{}, {OldRow}}

InitAward ==
    [pc |-> "idle", userId |-> NULL, serverId |-> NULL, xpToAward |-> 0,
     existing |-> NoRow, newXP |-> 0, newLevel |-> 0, leveledUp |-> FALSE]

\* a call that has returned: its locals are gone
DoneAward == [InitAward EXCEPT !.pc = "done"]

RowsOf(table, u, s) == {r \in table : r.user_id = u /\ r.server_id = s}

InFlight(p) == award[p].pc \notin {"idle", "done"}

\* the clock advances
Tick(t) ==
    /\ t > now
    /\ now' = t
    /\ UNCHANGED <<nonXpVars, user_levels, award, levelUps, awardLog, gated>>

\* lines 187-189: the locals of call p when it reaches its first await
AwardStarted(p, u, s, rnd) ==
    [award EXCEPT ![p].pc = "select", ![p].userId = u, ![p].serverId = s,
                  ![p].xpToAward = XpToAward(rnd)]

\* awardXP, lines 187-189: the ids and the random draw, up to the first await
\* (calls are numbered in their order of arrival)
awardXP(p, u, s, rnd) ==
    /\ award[p].pc = "idle"
    /\ \A q \in XpCalls : q < p => award[q].pc # "idle"
    /\ award' = AwardStarted(p, u, s, rnd)
    /\ UNCHANGED <<nonXpVars, user_levels, now, levelUps, awardLog, gated>>

(***************************************************************************)
(* awardXP, lines 192-194: the store executes the SELECT; first() gives    *)
(* one matching row (any of them: the statement has no ORDER BY) or null.  *)
(* A failed read is caught at line 225.                                    *)
(***************************************************************************)
awardXP_select(p, row, ok) ==
    /\ award[p].pc = "select"
    /\ IF ~ok
       THEN award' = [award EXCEPT ![p] = DoneAward]
       ELSE /\ IF RowsOf(user_levels, award[p].userId, award[p].serverId) = {}
               THEN row = NoRow
               ELSE row \in RowsOf(user_levels, award[p].userId, award[p].serverId)
            /\ award' = [award EXCEPT ![p].pc = "check", ![p].existing = row]
    /\ UNCHANGED <<nonXpVars, user_levels, now, levelUps, awardLog, gated>>

\* a cooldown that compares the minute of the clock, not the elapsed time
InCooldown_sameMinute(existing, t) ==
    /\ existing # NoRow
    /\ t \div Cooldown = DateGetTime(existing.last_xp_gain) \div Cooldown

\* lines 196-200: existing && existing.last_xp_gain, and now - lastGain < 60000
\* (last_xp_gain is a non-empty text in every row the code writes)
InCooldown(existing, t) ==
    /\ existing # NoRow
    /\ t - DateGetTime(existing.last_xp_gain) < Cooldown

\* the check without the early return of line 199
awardXP_check_noReturn(p) ==
    /\ award[p].pc = "check"
    /\ gated' = IF InCooldown(award[p].existing, now) THEN gated \cup {p} ELSE gated
    /\ IF award[p].existing # NoRow
       THEN LET newXP == award[p].existing.xp + award[p].xpToAward
                newLevel == LevelOf(newXP)
            IN award' = [award EXCEPT ![p].pc = "write", ![p].newXP = newXP,
                                      ![p].newLevel = newLevel,
                                      ![p].leveledUp = newLevel > award[p].existing.level]
       ELSE award' = [award EXCEPT ![p].pc = "write"]
    /\ UNCHANGED <<nonXpVars, user_levels, now, levelUps, awardLog>>

(***************************************************************************)
(* awardXP, lines 196-206: the cooldown gate, then the new xp and level,   *)
(* up to the await of the write.                                           *)
(***************************************************************************)
awardXP_check(p) ==
    /\ award[p].pc = "check"
    /\ gated' = IF InCooldown(award[p].existing, now) THEN gated \cup {p} ELSE gated
    /\ IF InCooldown(award[p].existing, now)
       THEN award' = [award EXCEPT ![p] = DoneAward]
       ELSE IF award[p].existing # NoRow
       THEN LET newXP == award[p].existing.xp + award[p].xpToAward
                newLevel == LevelOf(newXP)
            IN award' = [award EXCEPT ![p].pc = "write", ![p].newXP = newXP,
                                      ![p].newLevel = newLevel,
                                      ![p].leveledUp = newLevel > award[p].existing.level]
       ELSE award' = [award EXCEPT ![p].pc = "write"]
    /\ UNCHANGED <<nonXpVars, user_levels, now, levelUps, awardLog>>

\* lines 208-212: UPDATE user_levels SET xp, level, messages_sent + 1,
\* last_xp_gain = CURRENT_TIMESTAMP WHERE user_id = ? AND server_id = ?
UpdateRows(table, u, s, newXP, newLevel, t) ==
    {IF r.user_id = u /\ r.server_id = s
     THEN [r EXCEPT !.xp = newXP, !.level = newLevel,
                    !.messages_sent = @ + 1, !.last_xp_gain = CurrentTimestamp(t)]
     ELSE r : r \in table}

\* lines 219-223: INSERT INTO user_levels ... VALUES (?, ?, ?, ?, 0, 1, CURRENT_TIMESTAMP)
InsertRow(table, id, u, s, xp, t) ==
    table \cup {[id |-> id, user_id |-> u, server_id |-> s, xp |-> xp, level |-> 0,
                 messages_sent |-> 1, last_xp_gain |-> CurrentTimestamp(t)]}

(***************************************************************************)
(* awardXP, lines 208-224: the store executes the UPDATE or the INSERT     *)
(* (a failed write is caught at line 225); after an UPDATE the continuation*)
(* sends the congratulation when the level rose.  The UPDATE changes every *)
(* row of the pair; store ids are unique, the pair is not constrained.     *)
(***************************************************************************)
awardXP_write(p, ok) ==
    /\ award[p].pc = "write"
    /\ award' = [award EXCEPT ![p] = DoneAward]
    /\ LET a == award[p]
       IN IF ~ok
          THEN UNCHANGED <<user_levels, levelUps, awardLog>>
          ELSE IF a.existing # NoRow
          THEN /\ user_levels' = UpdateRows(user_levels, a.userId, a.serverId,
                                            a.newXP, a.newLevel, now)
               /\ levelUps' = IF a.leveledUp
                              THEN Append(levelUps, [call |-> p, level |-> a.newLevel])
                              ELSE levelUps
               /\ awardLog' = awardLog \cup
                                {[call |-> p, user_id |-> a.userId,
                                  server_id |-> a.serverId, delta |-> a.xpToAward,
                                  last_xp_gain |-> CurrentTimestamp(now)]}
          ELSE /\ user_levels' = InsertRow(user_levels, p, a.userId, a.serverId,
                                           a.xpToAward, now)
               /\ awardLog' = awardLog \cup
                                {[call |-> p, user_id |-> a.userId,
                                  server_id |-> a.serverId, delta |-> a.xpToAward,
                                  last_xp_gain |-> CurrentTimestamp(now)]}
               /\ UNCHANGED levelUps
    /\ UNCHANGED <<nonXpVars, now, gated>>

(***************************************************************************)
(* The lifecycle events: guildCreate, guildDelete, messageCreate.          *)
(***************************************************************************)
Joins == 1..MaxJoins

\* the servers that send guildCreate / guildDelete, their names and sizes
\* the instants at which the lifecycle events are observed: whole minutes
Minutes == {k * 60000 : k \in 0..MaxMinutes}

GuildIds == {"s1", "s2"}
GuildNames == {"Alpha", "Beta"}
MemberCount(g) == IF g = "s1" THEN 3 ELSE 5

nonJoinVars == <<cmdVars, xpVars, msg, drawVars>>

\* config, stats: history of what the two persistence calls of the handler did
InitJoin ==
    [pc |-> "idle", event |-> NULL, guild |-> NULL, name |-> NULL,
     totalServers |-> 0, totalUsers |-> 0, config |-> "none", stats |-> "none"]

\* server_configs.server_id is UNIQUE: the rows a new row conflicts with
ConflictsWith(table, row) == {r \in table : r.server_id = row.server_id}

\* server_configs.leveling_enabled DEFAULT true
LevelingDefault == 1

\* INSERT OR REPLACE: the conflicting rows are deleted, the new row inserted
InsertOrReplace(table, row) == (table \ ConflictsWith(table, row)) \cup {row}

\* lines 163-166: INSERT OR IGNORE skips the row on a constraint conflict
InsertOrIgnore(table, row) ==
    IF ConflictsWith(table, row) # {} THEN table ELSE table \cup {row}

\* line 165-166: the row built from guild.id, guild.name and CURRENT_TIMESTAMP
ConfigRow(g, name, t) ==
    [server_id |-> g, server_name |-> name, created_at |-> CurrentTimestamp(t),
     leveling_enabled |-> LevelingDefault]

RECURSIVE SumMembers(_)
\* line 150: guilds.cache.reduce((acc, guild) => acc + guild.memberCount, 0)
SumMembers(S) ==
    IF S = {} THEN 0
    ELSE LET g == CHOOSE x \in S : TRUE IN MemberCount(g) + SumMembers(S \ {g})

\* lines 105-109: the guild is in the cache when guildCreate is emitted; the
\* handler runs up to the await inside createServerConfig
guildCreate(j, g, name) ==
    /\ join[j].pc = "idle"
    /\ \A k \in Joins : k < j => join[k].pc # "idle"
    /\ guilds' = guilds \cup {g}
    /\ join' = [join EXCEPT ![j].pc = "config", ![j].event = "guildCreate",
                            ![j].guild = g, ![j].name = name]
    /\ UNCHANGED <<nonJoinVars, server_configs, bot_stats>>

\* the handler without the try / catch of lines 162 and 167: a failed insert
\* rejects the handler's promise
createServerConfig_uncaught(j, ok) ==
    /\ join[j].pc = "config"
    /\ IF ok
       THEN /\ server_configs' = InsertOrIgnore(server_configs,
                                     ConfigRow(join[j].guild, join[j].name, now))
            /\ join' = [join EXCEPT ![j].pc = "stats",
                                    ![j].config = IF server_configs' = server_configs
                                                  THEN "ignored" ELSE "ok",
                                    ![j].totalServers = Cardinality(guilds),
                                    ![j].totalUsers = SumMembers(guilds)]
       ELSE /\ join' = [join EXCEPT ![j].pc = "threw", ![j].config = "failed"]
            /\ UNCHANGED server_configs
    /\ UNCHANGED <<nonJoinVars, bot_stats, guilds>>

(***************************************************************************)
(* createServerConfig, lines 161-170: the store executes the insert (a     *)
(* failure is caught at line 167); the handler goes on at line 112 into    *)
(* updateBotStats, which reads the cache (lines 149-150) before its await. *)
(***************************************************************************)
createServerConfig(j, ok) ==
    /\ join[j].pc = "config"
    /\ server_configs' = IF ok
                         THEN InsertOrIgnore(server_configs,
                                  ConfigRow(join[j].guild, join[j].name, now))
                         ELSE server_configs
    /\ join' = [join EXCEPT ![j].pc = "stats",
                            ![j].config = IF ~ok THEN "failed"
                                          ELSE IF server_configs' = server_configs
                                          THEN "ignored" ELSE "ok",
                            ![j].totalServers = Cardinality(guilds),
                            ![j].totalUsers = SumMembers(guilds)]
    /\ UNCHANGED <<nonJoinVars, bot_stats, guilds>>

\* updateBotStats, lines 152-158: the store executes INSERT OR REPLACE on the
\* row 'main_stats' (a failure is caught at line 156); the handler returns
updateBotStats(j, ok) ==
    /\ join[j].pc = "stats"
    /\ bot_stats' = IF ok
                    THEN {[id |-> "main_stats", total_servers |-> join[j].totalServers,
                           total_users |-> join[j].totalUsers,
                           last_restart |-> CurrentTimestamp(now),
                           recorded_at |-> CurrentTimestamp(now)]}
                    ELSE bot_stats
    /\ join' = [join EXCEPT ![j].pc = "done", ![j].stats = IF ok THEN "ok" ELSE "failed"]
    /\ UNCHANGED <<nonJoinVars, server_configs, guilds>>

\* lines 116-120: the guild has left the cache when guildDelete is emitted; the
\* handler runs into updateBotStats, up to its await
guildDelete(j, g) ==
    /\ join[j].pc = "idle"
    /\ \A k \in Joins : k < j => join[k].pc # "idle"
    /\ g \in guilds
    /\ guilds' = guilds \ {g}
    /\ join' = [join EXCEPT ![j].pc = "stats", ![j].event = "guildDelete",
                            ![j].guild = g,
                            ![j].totalServers = Cardinality(guilds'),
                            ![j].totalUsers = SumMembers(guilds')]
    /\ UNCHANGED <<nonJoinVars, server_configs, bot_stats>>

\* another component of the bot sets the leveling flag of a server's row
setLevelingEnabled(g, v) ==
    /\ \E r \in server_configs : r.server_id = g /\ r.leveling_enabled # v
    /\ server_configs' = {IF r.server_id = g THEN [r EXCEPT !.leveling_enabled = v] ELSE r :
                            r \in server_configs}
    /\ UNCHANGED <<nonJoinVars, bot_stats, guilds, join>>

\* no row: the null that first() gives, and that line 180 returns
NoConfig ==
    [server_id |-> NULL, server_name |-> NULL, created_at |-> 0, leveling_enabled |-> 0]

\* gate: history of where the handler returned without calling awardXP
InitMsg == [pc |-> "idle", bot |-> FALSE, guild |-> NULL, author |-> NULL, gate |-> "none"]

\* lines 124-129: a message arrives; bot authors and direct messages return,
\* the others run up to the await inside getServerConfig
\* (message m, if it gets that far, is awardXP call m)
messageCreate(m, bot, g, u) ==
    /\ msg[m].pc = "idle"
    /\ \A k \in XpCalls : k < m => msg[k].pc # "idle"
    /\ msg' = [msg EXCEPT ![m].bot = bot, ![m].guild = g, ![m].author = u,
                          ![m].pc = IF bot \/ g = NULL THEN "done" ELSE "config",
                          ![m].gate = IF bot THEN "bot"
                                      ELSE IF g = NULL THEN "no guild" ELSE "none"]
    /\ UNCHANGED <<cmdVars, xpVars, joinVars, drawVars>>

\* the handler with the test of line 131 reduced to !config
messageCreate_config_anyFlag(m, ok, rnd) ==
    /\ msg[m].pc = "config"
    /\ LET rows == {r \in server_configs : r.server_id = msg[m].guild}
           config == IF ok /\ rows # {} THEN CHOOSE r \in rows : TRUE ELSE NoConfig
       IN IF config = NoConfig
          THEN /\ msg' = [msg EXCEPT ![m].pc = "done",
                                     ![m].gate = IF ok THEN "no config" ELSE "lookup failed"]
               /\ UNCHANGED award
          ELSE /\ msg' = [msg EXCEPT ![m].pc = "award"]
               /\ award' = AwardStarted(m, msg[m].author, msg[m].guild, rnd)
    /\ UNCHANGED <<cmdVars, joinVars, drawVars, user_levels, now, levelUps, awardLog, gated>>

(***************************************************************************)
(* getServerConfig, lines 172-183, and lines 130-134: the store answers    *)
(* the SELECT with the row or null (a failure is caught and gives null);   *)
(* the handler returns on null and on leveling_enabled === 0, and calls    *)
(* awardXP otherwise, which runs up to its first await.                    *)
(***************************************************************************)
messageCreate_config(m, ok, rnd) ==
    /\ msg[m].pc = "config"
    /\ LET rows == {r \in server_configs : r.server_id = msg[m].guild}
           config == IF ok /\ rows # {} THEN CHOOSE r \in rows : TRUE ELSE NoConfig
       IN IF config = NoConfig \/ config.leveling_enabled = 0
          THEN /\ msg' = [msg EXCEPT ![m].pc = "done",
                                     ![m].gate = IF ~ok THEN "lookup failed"
                                                 ELSE IF config = NoConfig THEN "no config"
                                                 ELSE "disabled"]
               /\ UNCHANGED award
          ELSE /\ msg' = [msg EXCEPT ![m].pc = "award"]
               /\ award' = AwardStarted(m, msg[m].author, msg[m].guild, rnd)
    /\ UNCHANGED <<cmdVars, joinVars, drawVars, user_levels, now, levelUps, awardLog, gated>>

\* the server_configs table when messages arrive: empty, or the row of an
\* earlier join of s1
InitConfigs == {{}, {ConfigRow("s1", "Alpha", 0)}}

InitBut ==
    /\ commands = {}
    /\ call = [i \in Invs |-> InitCall]
    /\ command_usage = {}
    /\ user_levels \in InitTables
    /\ now = 0
    /\ award = [p \in XpCalls |-> InitAward]
    /\ levelUps = <<>>
    /\ awardLog = {[call |-> r.id, user_id |-> r.user_id, server_id |-> r.server_id,
                    delta |-> r.xp, last_xp_gain |-> r.last_xp_gain] : r \in user_levels}
    /\ gated = {}
    /\ bot_stats = {}
    /\ guilds = {}
    /\ join = [j \in Joins |-> InitJoin]
    /\ msg = [m \in XpCalls |-> InitMsg]
    /\ rndIx = 0
    /\ deltas = {}

Init == InitBut /\ server_configs = {}

\* the bot restarted in servers it had joined before
InitServed == InitBut /\ server_configs \in InitConfigs

NextCmd ==
    \/ \E name \in CommandNames : registerCommand(name)
    \/ \E i \in Invs, name \in InputNames : handleCommand(i, name)
    \/ \E i \in Invs, ok \in BOOLEAN : handleCommand_log(i, ok)
    \/ \E i \in Invs, act \in HandlerActs, outcome \in {NoThrow} \cup Thrown :
          handleCommand_execute(i, act, outcome)
    \/ \E i \in Invs, ok \in BOOLEAN : handleCommand_catch(i, ok)
    \/ \E i \in Invs : handleCommand_notify(i)

\* the command pipeline alone
SpecCmd == Init /\ [][NextCmd]_vars

XpSteps ==
    \/ \E t \in Instants : Tick(t)
    \/ \E p \in XpCalls, row \in user_levels \cup {NoRow}, ok \in BOOLEAN :
          awardXP_select(p, row, ok)
    \/ \E p \in XpCalls : awardXP_check(p)
    \/ \E p \in XpCalls, ok \in BOOLEAN : awardXP_write(p, ok)

\* awardXP calls that interleave at their awaits
NextXP ==
    \/ \E p \in XpCalls, u \in Users, s \in Servers, rnd \in Randoms :
          awardXP(p, u, s, rnd)
    \/ XpSteps

SpecXP == Init /\ [][NextXP]_vars

\* awardXP calls one after the other: a call starts when none is in flight
NextXPSeq ==
    \/ \E p \in XpCalls, u \in Users, s \in Servers, rnd \in Randoms :
          /\ \A q \in XpCalls : ~InFlight(q)
          /\ awardXP(p, u, s, rnd)
    \/ XpSteps

SpecXPSeq == Init /\ [][NextXPSeq]_vars

\* line 189, for every value of Math.random() in turn: the fraction
\* rndIx / RandomGrain of [0, 1) and the xpToAward computed from it
awardXP_draw ==
    /\ rndIx < RandomGrain
    /\ deltas' = deltas \cup {XpToAward(<<rndIx, RandomGrain>>)}
    /\ rndIx' = rndIx + 1
    /\ UNCHANGED <<cmdVars, xpVars, joinVars, msg>>

NextDraw == awardXP_draw

\* the draw of line 189 over the whole range of Math.random()
SpecDraw == Init /\ [][NextDraw]_vars

NextJoin ==
    \/ \E t \in Minutes : Tick(t)
    \/ \E j \in Joins, g \in GuildIds, name \in GuildNames : guildCreate(j, g, name)
    \/ \E j \in Joins, ok \in BOOLEAN : createServerConfig(j, ok)
    \/ \E j \in Joins, ok \in BOOLEAN : updateBotStats(j, ok)
    \/ \E j \in Joins, g \in GuildIds : guildDelete(j, g)
    \/ \E g \in Servers, v \in {0, 1} : setLevelingEnabled(g, v)

\* a first start: no table has a row
InitFresh == Init /\ user_levels = {}

\* the join and leave events, interleaving at their awaits
SpecJoin == InitFresh /\ [][NextJoin]_vars

NextMsg ==
    \/ \E m \in XpCalls, bot \in BOOLEAN, g \in Servers \cup {NULL}, u \in Users :
          messageCreate(m, bot, g, u)
    \/ \E m \in XpCalls, ok \in BOOLEAN, rnd \in Randoms : messageCreate_config(m, ok, rnd)
    \/ \E g \in Servers, v \in {0, 1} : setLevelingEnabled(g, v)
    \/ \E t \in Minutes : Tick(t)
    \/ \E p \in XpCalls, row \in user_levels \cup {NoRow}, ok \in BOOLEAN :
          awardXP_select(p, row, ok)
    \/ \E p \in XpCalls : awardXP_check(p)
    \/ \E p \in XpCalls, ok \in BOOLEAN : awardXP_write(p, ok)

\* the messageCreate events, interleaving at their awaits
SpecMsg == InitServed /\ [][NextMsg]_vars

Next == NextCmd \/ NextXP \/ NextDraw \/ NextJoin \/ NextMsg

Spec == Init /\ [][Next]_vars

(***************************************************************************)
(* Properties of the command pipeline (checked under SpecCmd).             *)
(***************************************************************************)
\* the handleCommand call of interaction i has ended (returned or thrown)
Ended(i) == call[i].pc \in {"done", "threw"}

FailureRows(i) == {r \in UsageOf(i) : r.success = 0}

\* the generic failure notices interaction i was sent
Notices(i) ==
    {k \in 1..Len(call[i].sent) : call[i].sent[k].content = ErrorNotice("reply").content}

\* C1: a resolved invocation whose audit writes did not fail leaves exactly one
\* command_usage row in total, whether its handler returned or threw.
C1_ExactlyOneUsageRecord ==
    \A i \in Invs :
        (Ended(i) /\ call[i].found /\ call[i].preLog # "failed"
                  /\ call[i].failLog # "failed")
            => Cardinality(UsageOf(i)) = 1

\* C2: no command_usage row of an invocation exists before that invocation's
\* command.execute has returned or thrown.
C2_AuditOnlyAfterExecute ==
    \A i \in Invs : UsageOf(i) # {} => call[i].executed

\* C7: an invocation whose name is not registered gets exactly the ephemeral
\* not-found reply, runs no handler and leaves no command_usage row.
C7_NotFoundReplyOnly ==
    \A i \in Invs :
        (call[i].pc # "idle" /\ ~call[i].found)
            => /\ call[i].pc = "done"
               /\ call[i].sent = <<NotFoundReply>>
               /\ ~call[i].executed
               /\ UsageOf(i) = {}

\* an unregistered name answered with not-found beside a resolved, logged invocation
C7_Witness ==
    \E i, j \in Invs :
        /\ call[i].pc = "done" /\ ~call[i].found /\ call[i].commandName = "foo"
        /\ call[j].pc = "done" /\ call[j].found /\ UsageOf(j) # {}

\* C8 as stated: a handler that throws an error with message m leaves exactly
\* one row with success = 0, and its error_message is m.
C8_ExactlyOneFailureRecord ==
    \A i \in Invs :
        (call[i].pc = "done" /\ call[i].thrown.kind = "Error")
            => /\ Cardinality(FailureRows(i)) = 1
               /\ \A r \in FailureRows(i) : r.error_message = call[i].thrown.message

\* C8 amended: a handler that throws an error with message m leaves at most one
\* row with success = 0, exactly one when the store accepted the write, and the
\* row's error_message is m.
C8_FailureRecordWhenWritten ==
    \A i \in Invs :
        (call[i].pc = "done" /\ call[i].thrown.kind = "Error")
            => /\ Cardinality(FailureRows(i)) <= 1
               /\ call[i].failLog = "ok" => Cardinality(FailureRows(i)) = 1
               /\ call[i].failLog = "failed" => FailureRows(i) = {}
               /\ \A r \in FailureRows(i) : r.error_message = call[i].thrown.message

\* two handlers that threw: one failure write accepted by the store, one refused
C8_Witness ==
    \E i, j \in Invs :
        /\ call[i].pc = "done" /\ call[i].thrown = ThrownError("boom")
        /\ call[i].failLog = "ok"
        /\ call[j].pc = "done" /\ call[j].thrown = ThrownError("timeout")
        /\ call[j].failLog = "failed"

\* C9: an invocation whose handler threw has been sent exactly one generic
\* ephemeral failure notice when it ends: a follow-up when the handler had
\* replied or deferred, an initial reply otherwise.
C9_OneGenericNotice ==
    \A i \in Invs :
        (Ended(i) /\ call[i].thrown # NoThrow)
            => /\ Cardinality(Notices(i)) = 1
               /\ \A k \in Notices(i) :
                     call[i].sent[k] =
                        ErrorNotice(IF call[i].deferred \/ k > 1
                                    THEN "followUp" ELSE "reply")

\* C10: handleCommand never ends by throwing to its caller.
C10_NeverPropagates ==
    \A i \in Invs : call[i].pc # "threw"

\* C11: the outcome of the audit writes does not change what the invoker sees:
\* a resolved invocation runs its handler whatever the usage write did, two
\* invocations of the same command with the same handler behaviour are sent the
\* same replies and follow-ups, and a failed write is not tried again.
C11_AuditFailureInvisible ==
    /\ \A i \in Invs :
          /\ (call[i].found /\ Ended(i)) => call[i].executed
          /\ call[i].preLog = "failed" => {r \in UsageOf(i) : r.success = 1} = {}
          /\ call[i].failLog = "failed" => FailureRows(i) = {}
    /\ \A i, j \in Invs :
          (/\ Ended(i) /\ Ended(j)
           /\ call[i].commandName = call[j].commandName
           /\ call[i].found = call[j].found
           /\ call[i].act = call[j].act
           /\ call[i].thrown = call[j].thrown)
              => /\ call[i].executed = call[j].executed
                 /\ call[i].sent = call[j].sent

\* the same command and handler behaviour twice, every audit write accepted
\* for one interaction and refused for the other
C11_Witness ==
    \E i, j \in Invs :
        /\ call[i].pc = "done" /\ call[j].pc = "done"
        /\ call[i].found /\ call[j].found
        /\ call[i].act = "reply" /\ call[j].act = "reply"
        /\ call[i].thrown = ThrownError("boom") /\ call[j].thrown = ThrownError("boom")
        /\ call[i].preLog = "ok" /\ call[i].failLog = "ok"
        /\ call[j].preLog = "failed" /\ call[j].failLog = "failed"
        /\ Len(call[i].sent) = 2

\* C16: when an invocation has ended, each of its command_usage rows with
\* success = 1 stands for a handler that returned without throwing.
C16_SuccessRowMeansNoThrow ==
    \A i \in Invs :
        Ended(i) => \A r \in UsageOf(i) : r.success = 1 => call[i].thrown = NoThrow

(***************************************************************************)
(* Properties of the experience engine.                                    *)
(***************************************************************************)
SamePair(a, b) == a.user_id = b.user_id /\ a.server_id = b.server_id

\* C3 (under SpecXPSeq, calls one after the other): two award writes of one
\* (user, server) pair carry last_xp_gain timestamps at least 60000 ms apart.
C3_AwardsOneMinuteApart ==
    \A a, b \in awardLog :
        (a.call # b.call /\ SamePair(a, b))
            => \/ DateGetTime(a.last_xp_gain) - DateGetTime(b.last_xp_gain) >= 60000
               \/ DateGetTime(b.last_xp_gain) - DateGetTime(a.last_xp_gain) >= 60000

\* two awards written in this behaviour for one pair, the second by an UPDATE
C3_Witness ==
    \E a, b \in awardLog :
        /\ a.call \in XpCalls /\ b.call \in XpCalls /\ a.call # b.call
        /\ SamePair(a, b)
        /\ \E r \in user_levels : r.id = a.call /\ r.messages_sent = 2

\* C4: every user_levels row has level = floor(0.1 * sqrt(xp)): level is the
\* largest integer L with 100 * L * L <= xp.
C4_LevelDerivedFromXp ==
    \A r \in user_levels :
        /\ r.level >= 0
        /\ 100 * r.level * r.level <= r.xp
        /\ r.xp < 100 * (r.level + 1) * (r.level + 1)

\* a row raised to level 1 by an UPDATE beside a row this behaviour inserted
C4_Witness ==
    \E r, q \in user_levels :
        /\ r.level = 1 /\ r.messages_sent > OldRow.messages_sent
        /\ q.id \in XpCalls /\ q.level = 0

\* C5: no step lowers the level of a user_levels row.
C5_LevelNeverDecreases ==
    [][\A r \in user_levels : \A q \in user_levels' :
          q.id = r.id => q.level >= r.level]_vars

\* C6: at most one user_levels row per (user_id, server_id).
C6_OneRowPerPair ==
    \A r, q \in user_levels : SamePair(r, q) => r = q

\* the step in which call p passes the cooldown check holding a row whose
\* last_xp_gain is less than 60000 ms before now
GateStep(p) ==
    /\ award[p].pc = "check"
    /\ award[p].existing # NoRow
    /\ now - DateGetTime(award[p].existing.last_xp_gain) < 60000
    /\ award'[p] # award[p]

\* C12: an awardXP call that finds its row's last_xp_gain less than 60000 ms
\* before now returns at once: no row changes, none is inserted, no award is
\* recorded and no level-up reply is sent, then or later by that call.
C12_CooldownIsNoOp ==
    [][\A p \in XpCalls :
          /\ GateStep(p) => /\ award'[p].pc = "done"
                            /\ user_levels' = user_levels
                            /\ levelUps' = levelUps
                            /\ awardLog' = awardLog
          /\ p \in gated => /\ award'[p].pc = "done"
                             /\ \A a \in awardLog' : a.call # p]_vars

\* a call has returned at the gate, well inside the minute, and the row it
\* read is still as it was
C12_Witness ==
    \E p \in gated :
        /\ award[p].pc = "done"
        /\ OldRow \in user_levels
        /\ now = 59999
        /\ levelUps = <<>>

\* the step in which the store accepts the write of call p
WriteStep(p) ==
    /\ award[p].pc = "write"
    /\ award'[p].pc = "done"
    /\ user_levels' # user_levels

\* the xp that write stored
WrittenXp(p) ==
    IF award[p].existing = NoRow
    THEN (CHOOSE r \in user_levels' : r.id = p).xp
    ELSE (CHOOSE r \in RowsOf(user_levels', award[p].userId, award[p].serverId) : TRUE).xp

\* the largest L with 100 * L * L <= xp
DerivedLevel(xp) == CHOOSE L \in 0..xp : 100 * L * L <= xp /\ xp < 100 * (L + 1) * (L + 1)

\* the levels stored for the pair of call p when its write reaches the store
\* (0 when the pair has no row)
StoredLevels(p) ==
    {r.level : r \in RowsOf(user_levels, award[p].userId, award[p].serverId)} \cup {0}

\* C18: an award sends the congratulation, naming the new level, exactly when
\* the level derived from the xp it stores is strictly greater than the level
\* stored for the pair before the write (0 when there is no row); no other
\* step sends one.
C18_LevelUpExactlyOnRise ==
    [][/\ \A p \in XpCalls :
            WriteStep(p) =>
                LET derived == DerivedLevel(WrittenXp(p))
                IN IF \A l \in StoredLevels(p) : derived > l
                   THEN levelUps' = Append(levelUps, [call |-> p, level |-> derived])
                   ELSE levelUps' = levelUps
       /\ (\A p \in XpCalls : ~WriteStep(p)) => levelUps' = levelUps]_vars

RECURSIVE SumDeltas(_)
SumDeltas(S) ==
    IF S = {} THEN 0
    ELSE LET a == CHOOSE x \in S : TRUE IN a.delta + SumDeltas(S \ {a})

\* the writes a set of award records stands for (the old row's record stands
\* for the writes that built it)
CountWrites(S) ==
    Cardinality({a \in S : a.call \in XpCalls})
        + (IF \E a \in S : a.call = OldRow.id THEN OldRow.messages_sent ELSE 0)

\* C20: every row's xp is the sum of the deltas of the award writes the store
\* accepted for its pair, and its messages_sent is the number of those writes.
C20_NoAwardLost ==
    \A r \in user_levels :
        LET mine == {a \in awardLog : SamePair(a, r)}
        IN /\ r.xp = SumDeltas(mine)
           /\ r.messages_sent = CountWrites(mine)

(***************************************************************************)
(* Properties of the draw (checked under SpecDraw).                        *)
(***************************************************************************)
\* C17: every delta is an integer from 10 to 25, and once Math.random() has
\* taken every value, every integer from 10 to 25, 25 included, has been drawn.
C17_DeltaFrom10To25 ==
    /\ deltas \subseteq 10..25
    /\ rndIx = RandomGrain => deltas = 10..25

(***************************************************************************)
(* Properties of the join events (checked under SpecJoin).                 *)
(***************************************************************************)
ConfigsOf(table, g) == {r \in table : r.server_id = g}

\* the guildCreate handler j has run to its end
Joined(j) == join[j].event = "guildCreate" /\ join[j].pc = "done"

\* the step in which the store answers the insert of join j
ConfigStep(j) == join[j].pc = "config" /\ join'[j].pc # "config"

\* C13 as stated: after guildCreate has been handled twice for one server id
\* there is exactly one server_configs row for it, with the first call's name.
C13_ExactlyOneRowOfFirstCall ==
    \A i, j \in Joins :
        (i < j /\ Joined(i) /\ Joined(j) /\ join[i].guild = join[j].guild)
            => \E r \in server_configs :
                  /\ ConfigsOf(server_configs, join[i].guild) = {r}
                  /\ r.server_name = join[i].name

\* C13, amended: a server id never has more than one server_configs row and
\* has exactly one once the store has accepted an insert for it; an insert
\* for an id that has a row alters nothing, an accepted insert for an id
\* without one adds the row with the call's name, the current timestamp and
\* leveling enabled; no other step changes a row's name or created_at or
\* removes a row.
C13_JoinIsIdempotent ==
    [][/\ \A g \in GuildIds : Cardinality(ConfigsOf(server_configs', g)) <= 1
       /\ \A j \in Joins :
             ConfigStep(j) =>
                 /\ IF ConfigsOf(server_configs, join[j].guild) # {}
                       \/ join'[j].config = "failed"
                    THEN server_configs' = server_configs
                    ELSE server_configs' = server_configs \cup
                             {[server_id |-> join[j].guild, server_name |-> join[j].name,
                               created_at |-> CurrentTimestamp(now),
                               leveling_enabled |-> 1]}
                 /\ join'[j].config # "failed"
                        => Cardinality(ConfigsOf(server_configs', join[j].guild)) = 1
       /\ (\A j \in Joins : ~ConfigStep(j))
             => \A r \in server_configs :
                   \E q \in server_configs' :
                       /\ q.server_id = r.server_id
                       /\ q.server_name = r.server_name
                       /\ q.created_at = r.created_at]_vars

\* s1 joined twice, as Alpha and then as Beta a minute later, the flag
\* switched off in between: one row, named Alpha, created at 0, flag off
C13_Witness ==
    /\ Joined(1) /\ Joined(2)
    /\ join[1].guild = "s1" /\ join[2].guild = "s1"
    /\ join[1].name = "Alpha" /\ join[2].name = "Beta"
    /\ join[1].config = "ok" /\ join[2].config = "ignored"
    /\ now = 60000
    /\ server_configs = {[server_id |-> "s1", server_name |-> "Alpha", created_at |-> 0,
                          leveling_enabled |-> 0]}

\* C14: on a join event neither persistence failure leaves the handler by a
\* throw; a handler that has ended has attempted both the insert and the
\* stats write; after a failed insert the stats write is what the handler
\* does next; and the row of an accepted insert is there whatever the stats
\* write did.
C14_JoinFailuresIsolated ==
    \A j \in Joins :
        /\ join[j].pc # "threw"
        /\ Joined(j) => join[j].config # "none" /\ join[j].stats # "none"
        /\ join[j].config = "failed" => join[j].pc \in {"stats", "done"}
        /\ join[j].config = "ok" => ConfigsOf(server_configs, join[j].guild) # {}

\* one join whose insert was accepted and whose stats write failed, and one
\* whose insert failed and whose stats write was accepted
C14_Witness ==
    \E j, k \in Joins :
        /\ Joined(j) /\ join[j].config = "ok" /\ join[j].stats = "failed"
        /\ ConfigsOf(server_configs, join[j].guild) # {}
        /\ Joined(k) /\ join[k].config = "failed" /\ join[k].stats = "ok"
        /\ bot_stats # {}

(***************************************************************************)
(* Properties of the message events (checked under SpecMsg).               *)
(***************************************************************************)
\* the handler of message m has passed its config lookup, or returned
Handled(m) == msg[m].pc \in {"done", "award"}

\* C15: after a non-bot message of a server has been handled, the server has
\* a server_configs row (created lazily if the join event left none).
C15_ConfigCreatedOnFirstMessage ==
    \A m \in XpCalls :
        (Handled(m) /\ ~msg[m].bot /\ msg[m].guild # NULL)
            => \E r \in server_configs : r.server_id = msg[m].guild

\* nothing in the store or among the replies comes from message m
NoTraceOf(m) ==
    /\ \A r \in user_levels : r.id # m
    /\ \A a \in awardLog : a.call # m
    /\ \A k \in 1..Len(levelUps) : levelUps[k].call # m

\* C19: a message that is bot-authored, outside a server, in a server with no
\* server_configs row or a row with leveling_enabled = 0, or whose config
\* lookup fails, never starts awardXP, and the step that turns it away leaves
\* user_levels and the replies unchanged; awardXP starts only in the step in
\* which the lookup of a non-bot server message succeeds and the server's
\* row has leveling_enabled other than 0.
C19_GatedMessagesChangeNothing ==
    [][\A m \in XpCalls :
          /\ msg'[m].gate # "none"
                => /\ award'[m].pc = "idle"
                   /\ NoTraceOf(m)'
          /\ (msg[m].gate = "none" /\ msg'[m].gate # "none")
                => /\ user_levels' = user_levels
                   /\ levelUps' = levelUps
          /\ (msg[m].pc = "idle" /\ msg'[m].pc # "idle")
                => ((msg'[m].bot \/ msg'[m].guild = NULL) => msg'[m].gate # "none")
          /\ (msg[m].pc = "config" /\ msg'[m].pc # "config")
                => (msg'[m].gate = "none"
                      <=> \E r \in server_configs :
                             /\ r.server_id = msg[m].guild
                             /\ r.leveling_enabled # 0
                             /\ msg'[m].pc = "award")
          /\ (award[m].pc = "idle" /\ award'[m].pc # "idle")
                => /\ ~msg[m].bot /\ msg[m].guild # NULL
                   /\ msg[m].pc = "config"
                   /\ \E r \in server_configs :
                         r.server_id = msg[m].guild /\ r.leveling_enabled # 0]_vars

\* one message turned away because leveling is off while the other, sent
\* while it was on, has been awarded
C19_Witness ==
    \E m, k \in XpCalls :
        /\ msg[m].gate = "disabled"
        /\ NoTraceOf(m)
        /\ msg[k].pc = "award"
        /\ \E r \in user_levels : r.id = k
        /\ \E r \in server_configs : r.leveling_enabled = 0

====
